---- MODULE Spec2Model ----
(***************************************************************************)
(* Model of global_epg_db.py: the name resolver, the candidate generator,  *)
(* the fetcher, the per-country acquisition loop and the index builder.    *)
(* Strings are sequences of one-character strings, so that strip, replace, *)
(* lower and endswith are computed character by character.                 *)
(***************************************************************************)
EXTENDS Integers, Sequences, FiniteSets, TLC

VARIABLES
  nName, nResult, nFiles, nPc,   \* resolver and generator applied to one name
  fResp, fData, fPc,             \* fetcher applied to one response
  todo,        \* main: the sorted countries not yet acquired
  success,     \* main: the tally of countries saved
  dirs,        \* the subdirectories of the output root
  guide,       \* guide[d]: the bytes of <output root>/d/guide.xml, None when absent
  indexJson,   \* the content of <output root>/index.json, None when absent
  pc,          \* "main", "trying" (in download_for_country), "indexing", "done"
  display, slug, si, pj,   \* download_for_country: the country and the loop position
  fetched,     \* the (source, pattern) pairs fetched by this invocation, in order
  results,     \* what try_download returned for each of them
  before,      \* the guide file as it was when this invocation began
  writes,      \* how often this invocation wrote the guide file
  ret,         \* "none" while running, then "True" or "False"
  index,       \* build_index: the dictionary being built
  pending,     \* build_index: the entries of iterdir() not yet visited
  clock,       \* the latest value datetime.now returned
  ageNow       \* ageNow[d]: the datetime.now of line 192 for entry d

normVars == <<nName, nResult, nFiles, nPc>>

fetchVars == <<fResp, fData, fPc>>

\* the program: main, download_for_country, build_index
mainVars == <<todo, success, dirs, guide, indexJson, pc, display, slug, si, pj,
              fetched, results, before, writes, ret, index, pending, clock, ageNow>>

vars == <<nName, nResult, nFiles, nPc, fResp, fData, fPc,
          todo, success, dirs, guide, indexJson, pc, display, slug, si, pj,
          fetched, results, before, writes, ret, index, pending, clock, ageNow>>

-----------------------------------------------------------------------------
(* Strings *)

Upper == <<"A","B","C","D","E","F","G","H","I","J","K","L","M","N","O","P","Q","R","S","T","U","V","W","X","Y","Z">>

LowerSeq == <<"a","b","c","d","e","f","g","h","i","j","k","l","m","n","o","p","q","r","s","t","u","v","w","x","y","z">>

\* the characters str.strip() with no argument removes from both ends
Whitespace == {" ", "\t"}

LowerChar(c) ==
  IF \E i \in 1..Len(Upper) : Upper[i] = c
    THEN LowerSeq[CHOOSE i \in 1..Len(Upper) : Upper[i] = c]
    ELSE c

\* str.lower()
StrLower(s) == [i \in 1..Len(s) |-> LowerChar(s[i])]

\* str.strip()
Strip(s) ==
  LET keep == {i \in 1..Len(s) : s[i] \notin Whitespace}
  IN  IF keep = {} THEN <<>>
      ELSE LET first == CHOOSE i \in keep : \A j \in keep : i <= j
               last  == CHOOSE i \in keep : \A j \in keep : j <= i
           IN  SubSeq(s, first, last)

\* str.replace(ch, "")
Remove(s, ch) == SelectSeq(s, LAMBDA c : c # ch)

\* str.endswith(suffix)
EndsWith(s, suffix) ==
  /\ Len(suffix) <= Len(s)
  /\ SubSeq(s, Len(s) - Len(suffix) + 1, Len(s)) = suffix

-----------------------------------------------------------------------------
(* Name Resolver *)

slug_map ==
      (<<"B","o","s","n","i","a"," ","a","n","d"," ","H","e","r","z","e","g","o","v","i","n","a">>
        :> <<"B","o","s","n","i","a">>)
   @@ (<<"C","o","s","t","a"," ","R","i","c","a">>
        :> <<"C","o","s","t","a","r","i","c","a">>)
   @@ (<<"C","z","e","c","h"," ","R","e","p","u","b","l","i","c">>
        :> <<"C","z","e","c","h">>)
   @@ (<<"D","o","m","i","n","i","c","a","n"," ","R","e","p","u","b","l","i","c">>
        :> <<"D","o","m","i","n","i","c","a","n">>)
   @@ (<<"E","l"," ","S","a","l","v","a","d","o","r">>
        :> <<"E","l","s","a","l","v","a","d","o","r">>)
   @@ (<<"H","o","n","g"," ","K","o","n","g">>
        :> <<"H","o","n","g","k","o","n","g">>)
   @@ (<<"I","v","o","r","y"," ","C","o","a","s","t">>
        :> <<"I","v","o","r","y","c","o","a","s","t">>)
   @@ (<<"N","e","w"," ","C","a","l","e","d","o","n","i","a">>
        :> <<"N","e","w","c","a","l","e","d","o","n","i","a">>)
   @@ (<<"N","e","w"," ","Z","e","a","l","a","n","d">>
        :> <<"N","e","w","z","e","a","l","a","n","d">>)
   @@ (<<"P","u","e","r","t","o"," ","R","i","c","o">>
        :> <<"P","u","e","r","t","o","r","i","c","o">>)
   @@ (<<"S","a","u","d","i"," ","A","r","a","b","i","a">>
        :> <<"S","a","u","d","i","a","r","a","b","i","a">>)
   @@ (<<"S","o","u","t","h"," ","A","f","r","i","c","a">>
        :> <<"S","o","u","t","h","a","f","r","i","c","a">>)
   @@ (<<"U","n","i","t","e","d"," ","A","r","a","b"," ","E","m","i","r","a","t","e","s">>
        :> <<"U","a","e">>)
   @@ (<<"U","n","i","t","e","d"," ","K","i","n","g","d","o","m">>
        :> <<"U","n","i","t","e","d","k","i","n","g","d","o","m">>)
   @@ (<<"U","n","i","t","e","d"," ","S","t","a","t","e","s">>
        :> <<"U","s","a">>)

\* the default transform of line 88, applied to the stripped name
DefaultSlug(name) == Remove(Remove(name, " "), ".")

\* the table consulted with the name as given, before strip()
normalize_lookup_unstripped(name) ==
  LET stripped == Strip(name)
      folder == IF name \in DOMAIN slug_map
                  THEN slug_map[name]
                  ELSE DefaultSlug(stripped)
  IN  <<stripped, folder>>

normalize_country_name(name) ==
  LET stripped == Strip(name)
      folder == IF stripped \in DOMAIN slug_map
                  THEN slug_map[stripped]
                  ELSE DefaultSlug(stripped)
  IN  <<stripped, folder>>

-----------------------------------------------------------------------------
(* Candidate Generator *)

Ph(name) == [kind |-> "ph", v |-> name]

Lit(chars) == [kind |-> "lit", v |-> chars]

\* SOURCES[0]["file_patterns"], each template split into literal text and
\* replacement fields
file_patterns ==
  << <<Ph("slug_lower"), Lit(<<"1",".","x","m","l">>)>>,
     <<Ph("slug_lower"), Lit(<<"2",".","x","m","l">>)>>,
     <<Ph("slug_lower"), Lit(<<"3",".","x","m","l">>)>>,
     <<Ph("slug_lower"), Lit(<<"4",".","x","m","l">>)>>,
     <<Ph("slug_lower"), Lit(<<"5",".","x","m","l">>)>>,
     <<Ph("slug_lower"), Lit(<<"6",".","x","m","l">>)>>,
     <<Lit(<<"g","u","i","d","e",".","x","m","l">>)>>,
     <<Lit(<<"e","p","g",".","x","m","l">>)>>,
     <<Ph("slug"), Lit(<<".","x","m","l">>)>>,
     <<Ph("country_lower"), Lit(<<".","x","m","l">>)>>,
     <<Ph("slug_lower"), Lit(<<".","x","m","l",".","g","z">>)>>,
     <<Lit(<<"g","u","i","d","e",".","x","m","l",".","g","z">>)>>,
     <<Lit(<<"e","p","g",".","x","m","l",".","g","z">>)>> >>

SOURCES == << [name |-> "globetvapp", file_patterns |-> file_patterns] >>

\* the keyword arguments download_for_country passes to pat.format
FormatArgs(country, folder) ==
  [slug          |-> folder,
   slug_lower    |-> StrLower(folder),
   country_lower |-> StrLower(folder),
   country       |-> country]

RECURSIVE Format(_, _)
\* str.format with keyword arguments
Format(pat, kw) ==
  IF pat = <<>> THEN <<>>
  ELSE LET p == Head(pat)
       IN  (IF p.kind = "ph" THEN kw[p.v] ELSE p.v) \o Format(Tail(pat), kw)

\* the filenames of one source for one country, in loop order
Filenames(src, country, folder) ==
  [j \in 1..Len(src.file_patterns) |->
     Format(src.file_patterns[j], FormatArgs(country, folder))]

\* filename.lower().endswith('.gz')
IsGz(filename) == EndsWith(StrLower(filename), <<".","g","z">>)

-----------------------------------------------------------------------------
(* Fetcher *)

\* a Python value that may be None: <<>> is None, <<v>> is the value v
None == <<>>

Some(v) == <<v>>

\* a byte string, by what the program can observe of it: its length, the tree
\* ET.parse makes of it (None: not well-formed), and what gzip.decompress
\* makes of it (None: not a gzip stream)
Bytes(size, xml, gz) == [size |-> size, xml |-> xml, gz |-> gz]

\* the outcome of requests.get: an exception, or a response
Raised == [exc |-> TRUE, status |-> 0, content |-> Bytes(0, None, None)]

Response(status, content) == [exc |-> FALSE, status |-> status, content |-> content]

\* the "rough min size filter" of try_download
MinSize == 50000

HttpOk == 200

\* the size filter written >= instead of >
try_download_ge(outcome) ==
  IF outcome.exc THEN None
  ELSE IF outcome.status = HttpOk /\ outcome.content.size >= MinSize
         THEN Some(outcome.content)
         ELSE None

try_download(outcome) ==
  IF outcome.exc THEN None
  ELSE IF outcome.status = HttpOk /\ outcome.content.size > MinSize
         THEN Some(outcome.content)
         ELSE None

-----------------------------------------------------------------------------
(* Resolver and generator applied to bounded inputs *)

MaxNameLen == 3

NameChars == {"A", "b", " ", ".", "\t"}

RECURSIVE SeqsUpTo(_, _)
SeqsUpTo(S, n) ==
  IF n = 0 THEN {<<>>}
  ELSE LET shorter == SeqsUpTo(S, n - 1)
       IN  shorter \cup {Append(s, c) : s \in {t \in shorter : Len(t) = n - 1}, c \in S}

Brazil == <<"B","r","a","z","i","l">>

StLucia == <<"S","t","."," ","L","u","c","i","a">>

UnitedKingdom == <<"U","n","i","t","e","d"," ","K","i","n","g","d","o","m">>

NamedInputs == DOMAIN slug_map \cup {Brazil, StLucia, StrLower(UnitedKingdom)}

NameInputs ==
  SeqsUpTo(NameChars, MaxNameLen)
    \cup NamedInputs
    \cup {<<" ">> \o n \o <<"\t", " ">> : n \in NamedInputs}

NoResult == <<>>

NormParked ==
  /\ nName = <<>>
  /\ nResult = NoResult
  /\ nFiles = <<>>
  /\ nPc = "unused"

MainParked ==
  /\ todo = <<>>
  /\ success = 0
  /\ dirs = {}
  /\ guide = <<>>
  /\ indexJson = <<>>
  /\ pc = "unused"
  /\ display = <<>>
  /\ slug = <<>>
  /\ si = 0
  /\ pj = 0
  /\ fetched = <<>>
  /\ results = <<>>
  /\ before = <<>>
  /\ writes = 0
  /\ ret = "none"
  /\ index = <<>>
  /\ pending = {}
  /\ clock = 0
  /\ ageNow = <<>>

FetchParked ==
  /\ fResp = Raised
  /\ fData = None
  /\ fPc = "unused"

InitNorm ==
  /\ nName \in NameInputs
  /\ nResult = NoResult
  /\ nFiles = <<>>
  /\ nPc = "pending"
  /\ FetchParked
  /\ MainParked

Resolve ==
  /\ nPc = "pending"
  /\ nResult' = normalize_country_name(nName)
  /\ nPc' = "resolved"
  /\ UNCHANGED <<nName, nFiles, fetchVars, mainVars>>

Generate ==
  /\ nPc = "resolved"
  /\ nFiles' = Filenames(SOURCES[1], nResult[1], nResult[2])
  /\ nPc' = "generated"
  /\ UNCHANGED <<nName, nResult, fetchVars, mainVars>>

NextNorm == Resolve \/ Generate

SpecNorm == InitNorm /\ [][NextNorm]_vars

-----------------------------------------------------------------------------
(* Fetcher applied to bounded responses *)

MaxDelta == 2

Statuses == {200, 201, 206, 304, 404, 500}

FetchSizes == {0} \cup {MinSize - d : d \in 0..MaxDelta} \cup {MinSize + d : d \in 0..MaxDelta}

\* bodies of either kind: a document, or a gzip stream of one
FetchBodies ==
  {Bytes(n, Some("doc"), None) : n \in FetchSizes}
    \cup {Bytes(n, None, Some(Bytes(2 * n, Some("doc"), None))) : n \in FetchSizes}

FetchOutcomes == {Raised} \cup {Response(s, b) : s \in Statuses, b \in FetchBodies}

InitFetch ==
  /\ fResp \in FetchOutcomes
  /\ fData = None
  /\ fPc = "calling"
  /\ NormParked
  /\ MainParked

Fetch ==
  /\ fPc = "calling"
  /\ fData' = try_download(fResp)
  /\ fPc' = "returned"
  /\ UNCHANGED <<fResp, normVars, mainVars>>

NextFetch == Fetch

SpecFetch == InitFetch /\ [][NextFetch]_vars

-----------------------------------------------------------------------------
(* Acquisition Orchestrator *)

\* gzip.decompress(data): None stands for the exception it raises
gzip_decompress(data) == data.gz

\* the .gz branch left out: the bytes are written as fetched
Saved_raw(filename, data) == data

\* a gzip failure falling back to the bytes as fetched
Saved_gzfallback(filename, data) ==
  IF data = None THEN None
  ELSE IF IsGz(filename) /\ gzip_decompress(data[1]) # None THEN gzip_decompress(data[1])
  ELSE data

\* what one iteration of the pattern loop writes to the guide file: None when
\* the candidate is rejected by try_download or skipped after a gzip failure
Saved(filename, data) ==
  IF data = None THEN None
  ELSE IF IsGz(filename) THEN gzip_decompress(data[1])
  ELSE data

-----------------------------------------------------------------------------
(* Index Builder *)

\* the size below which build_index leaves a guide file out
IndexMinSize == 50000

\* the fetcher's comparison used for the index as well
Skipped_le(file) == file = None \/ file[1].size <= IndexMinSize

\* a file that does not parse left out of the index
Skipped_malformed(file) ==
  file = None \/ file[1].size < IndexMinSize \/ file[1].xml = None

\* line 152, for a directory whose guide file is file (None: no such file)
Skipped(file) == file = None \/ file[1].size < IndexMinSize

BytesPerMb == 1048576

\* round(st_size / (1024 * 1024), 2) in hundredths of a megabyte: the nearest
\* hundredth, a tie going to the even one
size_mb(size) ==
  LET q == (size * 100) \div BytesPerMb
      r == (size * 100) % BytesPerMb
  IN  IF 2 * r > BytesPerMb \/ (2 * r = BytesPerMb /\ q % 2 = 1) THEN q + 1 ELSE q

SecondsPerDay == 86400

\* the value of a programme's start attribute: absent, "", text that is no
\* timestamp, or fourteen digits (t: the second they denote when read as
\* UTC) followed by the text tz
NoStart == [kind |-> "none", t |-> 0, tz |-> ""]

EmptyStart == [kind |-> "empty", t |-> 0, tz |-> ""]

JunkStart == [kind |-> "junk", t |-> 0, tz |-> ""]

Stamp(t, tz) == [kind |-> "stamp", t |-> t, tz |-> tz]

\* lines 181-188: the datetime appended to start_times, None when the
\* programme is passed over; the text after the digits is cut off unread
ParseStart(start) == IF start.kind = "stamp" THEN Some(start.t) ELSE None

SetMax(S) == CHOOSE x \in S : \A y \in S : y <= x

\* the max(age, 0) of line 193 left out
age_days_nofloor(now, max_dt) == (now - max_dt) \div SecondsPerDay

\* lines 192-193; timedelta.days rounds towards minus infinity
age_days(now, max_dt) ==
  LET age == (now - max_dt) \div SecondsPerDay
  IN  IF age > 0 THEN age ELSE 0

Str(s) == [tag |-> "str", s |-> s, n |-> 0]

Num(n) == [tag |-> "int", s |-> "", n |-> n]

\* datetime.isoformat() of the UTC datetime at second t
IsoUtc(t) == [tag |-> "iso", s |-> "+00:00", n |-> t]

DefaultInfo ==
  [channels_count |-> 0,
   programmes_count |-> 0,
   generated_date |-> "Unknown",
   latest_programme_start |-> Str("Unknown"),
   age_days |-> Str("N/A"),
   generator |-> "Unknown"]

\* lines 157-196: extra_info for a guide file, now being datetime.now of line 192
extra_info(file, now) ==
  IF file.xml = None THEN DefaultInfo
  ELSE
    LET root == file.xml[1]
        programmes == root.programmes
        start_times ==
          {ParseStart(programmes[i])[1] :
             i \in {k \in 1..Len(programmes) : ParseStart(programmes[k]) # None}}
    IN  [channels_count |-> root.channels,
         programmes_count |-> Len(programmes),
         generated_date |-> IF root.date # None THEN root.date[1] ELSE "Unknown",
         generator |-> IF root.generator # None THEN root.generator[1] ELSE "Unknown",
         latest_programme_start |->
           IF start_times # {} THEN IsoUtc(SetMax(start_times)) ELSE Str("Unknown"),
         age_days |->
           IF start_times # {} THEN Num(age_days(now, SetMax(start_times)))
           ELSE Str("N/A")]

GuidePath == <<"/","g","u","i","d","e",".","x","m","l">>

\* lines 198-210
index_entry(name, file, now1, now2) ==
  LET info == extra_info(file, now1)
  IN  [country |-> name,
       file |-> name \o GuidePath,
       size_mb |-> size_mb(file.size),
       last_updated |-> now2,
       source |-> "globetvapp/epg (primary)",
       channels |-> info.channels_count,
       programmes |-> info.programmes_count,
       generated_date |-> info.generated_date,
       latest_programme_start |-> info.latest_programme_start,
       age_days |-> info.age_days,
       generator |-> info.generator]

-----------------------------------------------------------------------------
(* main *)

\* characters in code point order
CodeOrder ==
  <<"\t", " ", ".", "/">> \o Upper \o LowerSeq

Ord(c) == CHOOSE i \in 1..Len(CodeOrder) : CodeOrder[i] = c

RECURSIVE StrLess(_, _)
\* a < b on str
StrLess(a, b) ==
  IF b = <<>> THEN FALSE
  ELSE IF a = <<>> THEN TRUE
  ELSE IF Head(a) # Head(b) THEN Ord(Head(a)) < Ord(Head(b))
  ELSE StrLess(Tail(a), Tail(b))

sorted(s) == SortSeq(s, StrLess)

MaxCountries == 2

MaxTick == 1

CountryInputs == {Brazil, UnitedKingdom}

CountryLists == UNION {[1..n -> CountryInputs] : n \in 1..MaxCountries}

Slugs == {normalize_country_name(c)[2] : c \in CountryInputs}

Doc(channels, programmes, date, generator) ==
  [channels |-> channels, programmes |-> programmes, date |-> date, generator |-> generator]

DocEmpty == Doc(0, <<>>, None, None)

DocOld ==
  Doc(2, <<Stamp(0 - 3 * SecondsPerDay, ""), Stamp(0 - 2 * SecondsPerDay - 1, "+0100"), JunkStart>>,
      Some("20251229"), Some("grabber"))

DocFresh == Doc(1, <<NoStart, Stamp(0 - 1, " +0000"), EmptyStart>>, None, Some("grabber"))

DocFuture == Doc(1, <<Stamp(SecondsPerDay + 5, "")>>, Some("20260101"), None)

DocJunk == Doc(3, <<JunkStart, NoStart>>, None, None)

Xml(size, doc) == Bytes(size, Some(doc), None)

Gz(size, inner) == Bytes(size, None, Some(inner))

\* bodies a server may send with status 200 and more than MinSize bytes
ServedBodies ==
  {Xml(MinSize + 1, DocFresh),
   Bytes(MinSize + 2, None, None),
   Gz(MinSize + 1, Xml(MinSize - 10, DocOld)),
   Gz(MinSize + 13, Xml(MinSize, DocJunk)),
   Gz(MinSize + 1, Xml(8 * MinSize, DocFuture))}

ServedOutcomes ==
  {Raised, Response(404, Bytes(9, None, None)), Response(HttpOk, Xml(MinSize, DocFresh))}
    \cup {Response(HttpOk, b) : b \in ServedBodies}

\* guide files left by earlier runs
PreFiles == {Xml(IndexMinSize - 1, DocOld), Xml(IndexMinSize, DocEmpty), Bytes(IndexMinSize + 1, None, None)}

IndexJsonName == <<"i","n","d","e","x",".","j","s","o","n">>

Ticks == {k * (SecondsPerDay - 1) : k \in 0..MaxTick}

Init ==
  /\ todo \in {sorted(cs) : cs \in CountryLists}
  /\ success = 0
  /\ dirs \in SUBSET Slugs
  /\ guide \in [Slugs -> {None} \cup {Some(f) : f \in PreFiles}]
  /\ \A d \in Slugs : guide[d] # None => d \in dirs
  /\ indexJson \in {None, Some(<<>>)}
  /\ pc = "main"
  /\ display = <<>>
  /\ slug = <<>>
  /\ si = 0
  /\ pj = 0
  /\ fetched = <<>>
  /\ results = <<>>
  /\ before = None
  /\ writes = 0
  /\ ret = "none"
  /\ index = <<>>
  /\ pending = {}
  /\ clock = 0
  /\ ageNow = <<>>
  /\ NormParked
  /\ FetchParked

\* a pattern passed over when the loop advances
NextPosition_skip(i, j) ==
  IF j + 1 < Len(SOURCES[i].file_patterns) THEN <<i, j + 2>> ELSE <<i + 1, 1>>

\* the loop position after pattern j of source i: the two for statements
NextPosition(i, j) ==
  IF j < Len(SOURCES[i].file_patterns) THEN <<i, j + 1>> ELSE <<i + 1, 1>>

\* main calls download_for_country for the next country: lines 102-106
Invoke ==
  /\ pc = "main"
  /\ todo # <<>>
  /\ LET r == normalize_country_name(Head(todo))
     IN  /\ display' = r[1]
         /\ slug' = r[2]
         /\ dirs' = dirs \cup {r[2]}
         /\ before' = guide[r[2]]
  /\ todo' = Tail(todo)
  /\ si' = 1
  /\ pj' = 1
  /\ fetched' = <<>>
  /\ results' = <<>>
  /\ writes' = 0
  /\ ret' = "none"
  /\ pc' = "trying"
  /\ UNCHANGED <<success, guide, indexJson, index, pending, clock, ageNow, normVars, fetchVars>>

\* one iteration of the pattern loop: lines 115-141
TryCandidate ==
  /\ pc = "trying"
  /\ si <= Len(SOURCES)
  /\ \E outcome \in ServedOutcomes :
       LET filename == Filenames(SOURCES[si], display, slug)[pj]
           data == try_download(outcome)
           saved == Saved(filename, data)
       IN  /\ fetched' = Append(fetched, <<si, pj>>)
           /\ results' = Append(results, data)
           /\ IF saved # None
                THEN /\ guide' = [guide EXCEPT ![slug] = saved]
                     /\ writes' = writes + 1
                     /\ ret' = "True"
                     /\ success' = success + 1
                     /\ pc' = "main"
                     /\ UNCHANGED <<si, pj>>
                ELSE /\ si' = NextPosition(si, pj)[1]
                     /\ pj' = NextPosition(si, pj)[2]
                     /\ UNCHANGED <<guide, writes, ret, success, pc>>
  /\ UNCHANGED <<todo, dirs, indexJson, display, slug, before, index, pending, clock, ageNow,
                 normVars, fetchVars>>

\* the loops are over: lines 143-144
Exhausted ==
  /\ pc = "trying"
  /\ si > Len(SOURCES)
  /\ ret' = "False"
  /\ pc' = "main"
  /\ UNCHANGED <<todo, success, dirs, guide, indexJson, display, slug, si, pj, fetched,
                 results, before, writes, index, pending, clock, ageNow, normVars, fetchVars>>

\* main calls build_index: lines 147-148
BuildIndexBegin ==
  /\ pc = "main"
  /\ todo = <<>>
  /\ index' = <<>>
  /\ ageNow' = <<>>
  /\ pending' = dirs \cup (IF indexJson # None THEN {IndexJsonName} ELSE {})
  /\ pc' = "indexing"
  /\ display' = <<>>
  /\ slug' = <<>>
  /\ si' = 0
  /\ pj' = 0
  /\ fetched' = <<>>
  /\ results' = <<>>
  /\ before' = None
  /\ writes' = 0
  /\ ret' = "none"
  /\ UNCHANGED <<todo, success, dirs, guide, indexJson, clock, normVars, fetchVars>>

\* one iteration of the iterdir loop: lines 148-210
IndexNext ==
  /\ pc = "indexing"
  /\ \E d \in pending :
       /\ pending' = pending \ {d}
       /\ IF d \notin dirs \/ Skipped(guide[d])
            THEN UNCHANGED <<index, ageNow, clock>>
            ELSE \E now1 \in Ticks, now2 \in Ticks :
                   /\ clock <= now1
                   /\ now1 <= now2
                   /\ index' = (d :> index_entry(d, guide[d][1], now1, now2)) @@ index
                   /\ ageNow' = (d :> now1) @@ ageNow
                   /\ clock' = now2
  /\ UNCHANGED <<todo, success, dirs, guide, indexJson, pc, display, slug, si, pj, fetched,
                 results, before, writes, ret, normVars, fetchVars>>

\* lines 212-213
WriteIndex ==
  /\ pc = "indexing"
  /\ pending = {}
  /\ indexJson' = Some(index)
  /\ pc' = "done"
  /\ UNCHANGED <<todo, success, dirs, guide, display, slug, si, pj, fetched, results, before,
                 writes, ret, index, pending, clock, ageNow, normVars, fetchVars>>

Next == Invoke \/ TryCandidate \/ Exhausted \/ BuildIndexBegin \/ IndexNext \/ WriteIndex

Spec == Init /\ [][Next]_vars

-----------------------------------------------------------------------------
(* Properties of the acquisition loop *)

\* the filename of the k-th candidate this invocation fetched
FetchedName(k) == Filenames(SOURCES[fetched[k][1]], display, slug)[fetched[k][2]]

\* the k-th fetched candidate was accepted: try_download returned bytes and,
\* for a name ending in .gz, the bytes are a gzip stream
Succeeded(k) ==
  /\ results[k] # None
  /\ IsGz(FetchedName(k)) => results[k][1].gz # None

\* the bytes such a candidate stands for: decompressed for a .gz name
Payload(k) == IF IsGz(FetchedName(k)) THEN results[k][1].gz[1] ELSE results[k][1]

\* a .gz candidate that try_download returned and gzip could not decompress
GzFailed(k) ==
  /\ results[k] # None
  /\ IsGz(FetchedName(k))
  /\ results[k][1].gz = None

SetMin(S) == CHOOSE x \in S : \A y \in S : x <= y

InInvocation == pc = "trying" \/ ret # "none"

RECURSIVE PairsFrom(_)
\* every (source, pattern) pair from source i on, sources first
PairsFrom(i) ==
  IF i > Len(SOURCES) THEN <<>>
  ELSE [j \in 1..Len(SOURCES[i].file_patterns) |-> <<i, j>>] \o PairsFrom(i + 1)

AllPairs == PairsFrom(1)

\* C1: while and after download_for_country runs, if no fetched candidate was
\* accepted the guide file is as it was before the call and was not written;
\* otherwise it was written exactly once and holds the (decompressed) bytes of
\* the first accepted candidate in trial order.
C1_GuideWrittenOnceFromFirstSuccess ==
  InInvocation =>
    LET ok == {k \in 1..Len(results) : Succeeded(k)}
    IN  IF ok = {}
          THEN writes = 0 /\ guide[slug] = before
          ELSE writes = 1 /\ guide[slug] = Some(Payload(SetMin(ok)))

C1_Witness ==
  /\ ret = "True"
  /\ Len(results) >= 2
  /\ IsGz(FetchedName(Len(results)))
  /\ \E k \in 1..(Len(results) - 1) : GzFailed(k)
  /\ before # None
  /\ guide[slug] = results[Len(results)][1].gz
  /\ guide[slug] # before

\* C7: every guide file download_for_country has just written is at least
\* 50,000 bytes long, a decompressed .gz payload included.
C7_WrittenGuideMeetsMinimumSize ==
  ret = "True" => guide[slug][1].size >= 50000

\* C9: candidates are fetched in source order and, within a source, template
\* order, each once; nothing is fetched after the accepted one; the invocation
\* ends with True right after the first accepted candidate, or with False
\* after every pair was tried and none accepted.
C9_OrderedTrialsOneOutcome ==
  /\ InInvocation =>
       /\ Len(fetched) <= Len(AllPairs)
       /\ fetched = SubSeq(AllPairs, 1, Len(fetched))
       /\ Len(results) = Len(fetched)
       /\ \A k \in 1..Len(fetched) : Succeeded(k) => k = Len(fetched) /\ ret = "True"
       /\ pc = "trying" => ret = "none" /\ writes = 0
       /\ ret = "True" => Len(fetched) >= 1 /\ Succeeded(Len(fetched)) /\ writes = 1
       /\ ret = "False" => fetched = AllPairs /\ writes = 0
       /\ ret \in {"none", "True", "False"}
  /\ (pc = "main" /\ slug # <<>>) => ret \in {"True", "False"}

C9_Witness ==
  /\ ret = "False"
  /\ Len(fetched) = Len(AllPairs)
  /\ \E k \in 1..Len(fetched) : GzFailed(k)

\* C10: a fetched .gz candidate that cannot be decompressed is discarded: the
\* guide file is not written for it, the loop stands at the next pair (or,
\* after the last pair, returns False), and a later candidate can still be
\* accepted.
C10_GzFailureSkipsToNext ==
  InInvocation =>
    \A k \in 1..Len(results) :
      GzFailed(k) =>
        /\ Len(results) = k =>
             /\ writes = 0
             /\ guide[slug] = before
             /\ \/ pc = "trying" /\ k < Len(AllPairs) /\ <<si, pj>> = AllPairs[k + 1]
                \/ pc = "trying" /\ k = Len(AllPairs) /\ si > Len(SOURCES)
                \/ ret = "False" /\ k = Len(AllPairs)
        /\ ret = "False" => \A h \in 1..Len(results) : ~Succeeded(h)

C10_Witness ==
  /\ ret = "True"
  /\ \E k \in 1..Len(results) : k < Len(results) /\ GzFailed(k)
  /\ guide[slug] # before

-----------------------------------------------------------------------------
(* Properties of the index *)

Written == indexJson[1]

\* C3 as stated: after build_index no directory whose guide.xml is missing or
\* of at most 50,000 bytes has an entry, and every directory whose guide.xml
\* is larger has one.
C3_ExcludesAtMostThreshold ==
  pc = "done" =>
    \A d \in dirs :
      /\ (guide[d] = None \/ guide[d][1].size <= 50000) => d \notin DOMAIN Written
      /\ (guide[d] # None /\ guide[d][1].size > 50000) => d \in DOMAIN Written

\* C3 amended: after build_index no directory whose guide.xml is missing or
\* smaller than 50,000 bytes has an entry, and every directory whose guide.xml
\* has 50,000 bytes or more has one; nothing else has an entry.
C3_ExcludesBelowThreshold ==
  pc = "done" =>
    /\ DOMAIN Written \subseteq dirs
    /\ \A d \in dirs :
         /\ (guide[d] = None \/ guide[d][1].size < 50000) => d \notin DOMAIN Written
         /\ (guide[d] # None /\ guide[d][1].size >= 50000) =>
              d \in DOMAIN Written /\ Written[d].country = d

C3_Witness ==
  /\ pc = "done"
  /\ \E d \in dirs, e \in dirs, f \in dirs :
       /\ guide[d] # None /\ guide[d][1].size = 50000 /\ d \in DOMAIN Written
       /\ guide[e] # None /\ guide[e][1].size = 49990 /\ e \notin DOMAIN Written
       /\ e # d

\* the starts of a parsed guide that are timestamps
ParsedStarts(file) ==
  IF file.xml = None THEN {}
  ELSE {file.xml[1].programmes[i].t :
          i \in {k \in 1..Len(file.xml[1].programmes) :
                   file.xml[1].programmes[k].kind = "stamp"}}

\* the whole days in x seconds, rounded down
WholeDays(x) == CHOOSE q \in -40..40 : q * 86400 <= x /\ x < (q + 1) * 86400

\* C6: for every entry of the index whose guide has a parsable programme
\* start, age_days is an integer >= 0, equal to the whole days between the
\* latest parsed start and the time of the computation, rounded down, and 0
\* when the latest start lies in the future.
C6_AgeDaysFlooredAtZero ==
  pc \in {"indexing", "done"} =>
    \A d \in DOMAIN index :
      LET starts == ParsedStarts(guide[d][1])
      IN  starts # {} =>
            LET latest == SetMax(starts)
                days == WholeDays(ageNow[d] - latest)
            IN  /\ index[d].age_days.tag = "int"
                /\ index[d].age_days.n >= 0
                /\ index[d].age_days.n = (IF days >= 0 THEN days ELSE 0)
                /\ latest > ageNow[d] => index[d].age_days.n = 0
                /\ index[d].latest_programme_start = IsoUtc(latest)

C6_Witness ==
  /\ pc = "done"
  /\ \E d \in DOMAIN Written, e \in DOMAIN Written :
       /\ ParsedStarts(guide[d][1]) # {}
       /\ SetMax(ParsedStarts(guide[d][1])) > ageNow[d] + 86400
       /\ Written[d].age_days = Num(0)
       /\ ParsedStarts(guide[e][1]) # {}
       /\ Written[e].age_days = Num(1)

\* C8: when a guide document does not parse, build_index still emits its
\* entry with channels 0, programmes 0, generated_date "Unknown",
\* latest_programme_start "Unknown", age_days "N/A", generator "Unknown";
\* every other directory with a guide of 50,000 bytes or more has its entry;
\* and index.json is written.
C8_ParseFailureKeepsEntry ==
  pc = "done" =>
    /\ indexJson # None
    /\ Written = index
    /\ \A d \in dirs :
         (guide[d] # None /\ guide[d][1].size >= 50000) =>
           /\ d \in DOMAIN Written
           /\ guide[d][1].xml = None =>
                /\ Written[d].channels = 0
                /\ Written[d].programmes = 0
                /\ Written[d].generated_date = "Unknown"
                /\ Written[d].latest_programme_start = Str("Unknown")
                /\ Written[d].age_days = Str("N/A")
                /\ Written[d].generator = "Unknown"

C8_Witness ==
  /\ pc = "done"
  /\ \E d \in DOMAIN Written, e \in DOMAIN Written :
       /\ guide[d][1].xml = None
       /\ Written[d].age_days = Str("N/A")
       /\ guide[e][1].xml # None
       /\ Written[e].channels > 0

-----------------------------------------------------------------------------
(* Properties of the fetcher *)

\* C2 as stated: None for every body of at most 50,000 bytes whatever the
\* status, None for an exception, and a body of 50,001 bytes with a success
\* status (2xx) is returned unchanged.
C2_AnySuccessStatusAccepted ==
  fPc = "returned" =>
    /\ fResp.exc => fData = None
    /\ (~fResp.exc /\ fResp.content.size <= 50000) => fData = None
    /\ (~fResp.exc /\ fResp.status \in 200..299 /\ fResp.content.size = 50001) =>
         fData = Some(fResp.content)

\* C2 amended: None for every body of at most 50,000 bytes whatever the
\* status, None for an exception, None for every status other than 200, and
\* a body of 50,001 bytes with status 200 is returned unchanged.
C2_Status200Accepted ==
  fPc = "returned" =>
    /\ fResp.exc => fData = None
    /\ (~fResp.exc /\ fResp.content.size <= 50000) => fData = None
    /\ (~fResp.exc /\ fResp.status # 200) => fData = None
    /\ (~fResp.exc /\ fResp.status = 200 /\ fResp.content.size = 50001) =>
         fData = Some(fResp.content)

C2_Witness ==
  /\ fPc = "returned"
  /\ ~fResp.exc
  /\ fResp.status = 200
  /\ fResp.content.size = 50001
  /\ fData = Some(fResp.content)

-----------------------------------------------------------------------------
(* Properties of the resolver and the generator *)

RECURSIVE DropLeading(_)
DropLeading(s) ==
  IF s # <<>> /\ Head(s) \in {" ", "\t"} THEN DropLeading(Tail(s)) ELSE s

RECURSIVE DropTrailing(_)
DropTrailing(s) ==
  IF s # <<>> /\ s[Len(s)] \in {" ", "\t"} THEN DropTrailing(SubSeq(s, 1, Len(s) - 1)) ELSE s

Trimmed(s) == DropTrailing(DropLeading(s))

RECURSIVE WithoutSpacesAndPeriods(_)
WithoutSpacesAndPeriods(s) ==
  IF s = <<>> THEN <<>>
  ELSE IF Head(s) \in {" ", "."} THEN WithoutSpacesAndPeriods(Tail(s))
  ELSE <<Head(s)>> \o WithoutSpacesAndPeriods(Tail(s))

Unitedkingdom == <<"U","n","i","t","e","d","k","i","n","g","d","o","m">>

\* C4: normalize_country_name returns, for every name, the name trimmed of
\* surrounding whitespace together with the table's slug when the trimmed
\* name is a key of the table, and otherwise the trimmed name without its
\* spaces and periods, case kept; "United Kingdom" gives "Unitedkingdom" and
\* "Brazil" gives "Brazil".
C4_NormalizeTotal ==
  nPc \in {"resolved", "generated"} =>
    LET name == Trimmed(nName)
    IN  /\ nResult[1] = name
        /\ name \in DOMAIN slug_map => nResult[2] = slug_map[name]
        /\ name \notin DOMAIN slug_map => nResult[2] = WithoutSpacesAndPeriods(name)
        /\ name = UnitedKingdom => nResult[2] = Unitedkingdom
        /\ name = Brazil => nResult[2] = Brazil

C4_Witness ==
  /\ nPc = "resolved"
  /\ nName = <<" ">> \o UnitedKingdom \o <<"\t", " ">>
  /\ nResult = <<UnitedKingdom, Unitedkingdom>>

\* C5: the filenames generated for a country are one per template, in
\* template order, the j-th being the j-th template with {slug} replaced by
\* the slug, {slug_lower} by the slug lower-cased, {country} by the display
\* name and {country_lower} by the display name lower-cased.
C5_FilenamesFromFourPlaceholders ==
  nPc = "generated" =>
    /\ Len(nFiles) = Len(file_patterns)
    /\ \A j \in 1..Len(file_patterns) :
         nFiles[j] = Format(file_patterns[j],
                            [slug          |-> nResult[2],
                             slug_lower    |-> StrLower(nResult[2]),
                             country       |-> nResult[1],
                             country_lower |-> StrLower(nResult[1])])

====
